---- MODULE Spec2Model ----
(***************************************************************************)
(* SkillSync backend (src/server.js): the ingestion recorder               *)
(* (storeToDatabase, updateSkillAnalytics, updateTrends), the analytics    *)
(* aggregation of GET /api/analytics with generateEnhancedAlerts, and the  *)
(* CSV export of GET /api/export.                                          *)
(*                                                                         *)
(* Text is a sequence of tokens.  A token is one of the characters the CSV *)
(* and JSON formats give a meaning to (double quote, comma, line feed,     *)
(* brackets) or an opaque run of other characters.  Skill, department,     *)
(* academic-year and company names are opaque runs; student names and job  *)
(* roles are token sequences and may hold any token.                       *)
(*                                                                         *)
(* A date is the local calendar day of `new Date()`, counted in days since *)
(* 1970-01-01, so Date.UTC(getFullYear(), getMonth(), getDate()) is the    *)
(* day number times 86400000.                                              *)
(***************************************************************************)
EXTENDS Integers, Sequences, FiniteSets, TLC

(***************************************************************************)
(* Calendar arithmetic behind Date.UTC, getFullYear and getUTCDay.         *)
(***************************************************************************)
\* Date.UTC(y, m - 1, d) / 86400000: the days from 1970-01-01 to the civil date
DateUTC(y, m, d) ==
    LET yy  == IF m <= 2 THEN y - 1 ELSE y
        era == yy \div 400
        yoe == yy - era * 400
        doy == (153 * (IF m > 2 THEN m - 3 ELSE m + 9) + 2) \div 5 + d - 1
        doe == yoe * 365 + yoe \div 4 - yoe \div 100 + doy
    IN  era * 146097 + doe - 719468

\* Date.prototype.getFullYear / getUTCFullYear of a day number
getFullYear(date) ==
    LET z   == date + 719468
        era == z \div 146097
        doe == z - era * 146097
        yoe == (doe - doe \div 1460 + doe \div 36524 - doe \div 146096) \div 365
        doy == doe - (365 * yoe + yoe \div 4 - yoe \div 100)
        mp  == (5 * doy + 2) \div 153
    IN  yoe + era * 400 + (IF mp < 10 THEN 0 ELSE 1)

\* Date.prototype.getUTCDay: 0 is Sunday; 1970-01-01 was a Thursday
getUTCDay(date) == (date + 4) % 7

\* src/server.js getWeekNumber: the week number of the Thursday of the date's
\* week, counted from January 1 of that Thursday's year
getWeekNumber(date) ==
    LET dayNum    == IF getUTCDay(date) = 0 THEN 7 ELSE getUTCDay(date)
        d         == date + 4 - dayNum
        yearStart == DateUTC(getFullYear(d), 1, 1)
    IN  ((d - yearStart) + 1 + 6) \div 7        \* Math.ceil(x / 7), x > 0

(***************************************************************************)
(* Bounds of the model.                                                    *)
(***************************************************************************)
MaxRecords == 2     \* analyze requests accepted in an ingestion run
MaxPending == 1     \* analyze requests waiting for the AI reply at once
MaxAggRecords == 3  \* analyze requests accepted in an aggregation run
StoredBefore == 19  \* records the database file holds at start in a recent-activity run
MaxNewRecords == 3  \* analyze requests accepted in a recent-activity run
MaxConcurrent == 2  \* analyze requests waiting for the AI reply at once in a concurrent run
MaxConcurrentRecords == 3  \* analyze requests accepted in a concurrent run
MaxReadinessRecords == 5  \* analyze requests accepted in a readiness run

(***************************************************************************)
(* State.                                                                  *)
(***************************************************************************)
VARIABLES
    now,              \* the local calendar day of the server clock
    genAI,            \* TRUE once the GoogleGenerativeAI client is constructed
    modelReady,       \* let modelReady
    pending,          \* bodies of the /api/analyze requests awaiting the AI reply
    skill_gaps,       \* table skill_gaps, in rowid order
    skill_analytics,  \* table skill_analytics: <<skill_name, department>> -> total_missing
    trends,           \* table trends: <<skill_name, week_number, year>> -> count
    response,         \* the response sent by the handler that ran last
    logs,             \* what that handler wrote to the console
    canvas,           \* admin page: chart slot -> its <canvas> element is in the document
    charts,           \* admin page: let charts = {}, the object held for each slot
    live,             \* admin page: chart slot -> the Chart instances created and not destroyed
    dashboard         \* admin page: how the updateDashboard call that ran last ended

vars == <<now, genAI, modelReady, pending, skill_gaps, skill_analytics, trends,
          response, logs, canvas, charts, live, dashboard>>

\* The state of the admin page, which no handler of the server touches
page == <<canvas, charts, live, dashboard>>

store == <<skill_gaps, skill_analytics, trends>>

NoResponse == [op |-> "none", status |-> 0]

EmptyTable == [k \in {} |-> 0]

\* `value || fallback` on a string
OrElse(value, fallback) == IF value = "" THEN fallback ELSE value

(***************************************************************************)
(* Ingestion recorder.                                                     *)
(***************************************************************************)
\* INSERT OR REPLACE with count 1: the row's earlier count is lost
UpsertReplacing(table, key) ==
    IF key \in DOMAIN table
    THEN [table EXCEPT ![key] = 1]
    ELSE table @@ (key :> 1)

\* SELECT by the unique key, then UPDATE count + 1 or INSERT with count 1
Upsert(table, key) ==
    IF key \in DOMAIN table
    THEN [table EXCEPT ![key] = @ + 1]
    ELSE table @@ (key :> 1)

\* One try/catch around the whole loop: the first failure ends it
RECURSIVE AnalyticsForEachAborting(_, _, _, _, _)
AnalyticsForEachAborting(table, skills, department, fail, i) ==
    IF i > Len(skills) \/ i \in fail THEN table
    ELSE AnalyticsForEachAborting(
            Upsert(table, <<skills[i], OrElse(department, "Unknown")>>),
            skills, department, fail, i + 1)

RECURSIVE AnalyticsForEach(_, _, _, _, _)
AnalyticsForEach(table, skills, department, fail, i) ==
    IF i > Len(skills) THEN table
    ELSE AnalyticsForEach(
            IF i \in fail THEN table
            ELSE Upsert(table, <<skills[i], OrElse(department, "Unknown")>>),
            skills, department, fail, i + 1)

\* src/server.js updateSkillAnalytics: skills.forEach with a try/catch around
\* each skill; `fail` holds the positions whose statement throws
updateSkillAnalytics(table, skills, department, fail) ==
    AnalyticsForEach(table, skills, department, fail, 1)

RECURSIVE TrendsForEach(_, _, _, _, _, _)
TrendsForEach(table, skills, weekNumber, year, fail, i) ==
    IF i > Len(skills) THEN table
    ELSE TrendsForEach(
            IF i \in fail THEN table
            ELSE Upsert(table, <<skills[i], weekNumber, year>>),
            skills, weekNumber, year, fail, i + 1)

\* The trend counters kept for the clock's year only: rows of other years are dropped
updateTrendsPruning(table, skills, date, fail) ==
    LET kept == {k \in DOMAIN table : k[3] = getFullYear(date)}
    IN  TrendsForEach([k \in kept |-> table[k]], skills,
                      getWeekNumber(date), getFullYear(date), fail, 1)

\* src/server.js updateTrends: the row is keyed by the ISO week number of the
\* clock and by the clock's calendar year; skills.forEach with a try/catch
\* around each skill
updateTrends(table, skills, date, fail) ==
    TrendsForEach(table, skills, getWeekNumber(date), getFullYear(date), fail, 1)

\* console.error lines of the two forEach loops
RECURSIVE ErrorLines(_, _, _, _)
ErrorLines(line, n, fail, i) ==
    IF i > n THEN <<>>
    ELSE (IF i \in fail THEN <<line>> ELSE <<>>) \o ErrorLines(line, n, fail, i + 1)

(***************************************************************************)
(* Text.                                                                   *)
(***************************************************************************)
Quote == "\""

\* The value as it is, its quotes not doubled
QuotesLeftAlone(text) == text

\* value.replace(/"/g, '""')
RECURSIVE DoubleQuotes(_)
DoubleQuotes(text) ==
    IF text = <<>> THEN <<>>
    ELSE (IF Head(text) = Quote THEN <<Quote, Quote>> ELSE <<Head(text)>>)
         \o DoubleQuotes(Tail(text))

\* JSON.stringify of an array of opaque strings
RECURSIVE JSONElements(_)
JSONElements(list) ==
    IF list = <<>> THEN <<>>
    ELSE <<Quote, Head(list), Quote>>
         \o (IF Len(list) > 1 THEN <<",">> ELSE <<>>)
         \o JSONElements(Tail(list))

JSONstringify(list) == <<"[">> \o JSONElements(list) \o <<"]">>

\* JSON.parse of the text of such an array: the strings between the quotes
RECURSIVE JSONItems(_)
JSONItems(text) ==
    IF text = <<>> \/ Head(text) = "]" THEN <<>>
    ELSE IF Head(text) = "," THEN JSONItems(Tail(text))
    ELSE <<text[2]>> \o JSONItems(SubSeq(text, 4, Len(text)))

JSONparse(text) == JSONItems(Tail(text))

\* String.prototype.toUpperCase after replace(/\s+/g, "_"), on one token
UpperToken(tok) ==
    CASE tok = " "   -> "_"
      [] tok = "ann" -> "ANN"
      [] tok = "Ann" -> "ANN"
      [] OTHER       -> tok

\* src/server.js generateStudentId: the normalised name and Date.now()
generateStudentId(name, ms) ==
    [name |-> IF name # <<>> THEN [i \in 1..Len(name) |-> UpperToken(name[i])]
              ELSE <<"ANON">>,
     ms   |-> ms]

\* The counters updated ahead of the INSERT INTO skill_gaps
storeToDatabaseCountingFirst(db, data, date, insertFails, failSA, failTR) ==
    LET counted == <<db[1],
                     updateSkillAnalytics(db[2], data.missing_skills, data.department, failSA),
                     updateTrends(db[3], data.missing_skills, date, failTR)>>
    IN  IF insertFails
        THEN [db |-> counted, logs |-> <<"Database storage error">>]
        ELSE [db   |-> <<Append(db[1], [data EXCEPT !.missing_skills = JSONstringify(@),
                                                    !.matched_skills = JSONstringify(@)]
                                        @@ [timestamp |-> date]),
                         counted[2], counted[3]>>,
              logs |-> <<"Data stored in database">>]

\* src/server.js storeToDatabase: the INSERT INTO skill_gaps, then the two
\* counter updates; an error thrown by the INSERT is logged and swallowed.
\* db is <<skill_gaps, skill_analytics, trends>>.
storeToDatabase(db, data, date, insertFails, failSA, failTR) ==
    IF insertFails
    THEN [db |-> db, logs |-> <<"Database storage error">>]
    ELSE LET row == [student_id       |-> data.student_id,
                     student_name     |-> IF data.student_name = <<>> THEN <<"Anonymous">>
                                          ELSE data.student_name,
                     department       |-> OrElse(data.department, "Unknown"),
                     academic_year    |-> OrElse(data.academic_year, "Not Specified"),
                     job_role         |-> data.job_role,
                     company_name     |-> OrElse(data.company_name, "Unknown"),
                     match_percentage |-> data.match_percentage,
                     missing_skills   |-> JSONstringify(data.missing_skills),
                     matched_skills   |-> JSONstringify(data.matched_skills),
                     skill_priority   |-> data.skill_priority,
                     timestamp        |-> date]
             n   == Len(data.missing_skills)
         IN  [db   |-> <<Append(db[1], row),
                         updateSkillAnalytics(db[2], data.missing_skills,
                                              data.department, failSA),
                         updateTrends(db[3], data.missing_skills, date, failTR)>>,
              logs |-> ErrorLines("Error updating skill analytics", n, failSA, 1)
                       \o ErrorLines("Error updating trends", n, failTR, 1)
                       \o <<"Data stored in database">>]

\* src/server.js extractJobRole and extractCompanyName on the job descriptions
\* of the model: "Role: Data \"Lead\"\nCompany: Acme" and "backend developer wanted"
extractJobRole(jobDescription) ==
    IF jobDescription = "titled" THEN <<"Data ", Quote, "Lead", Quote>>
    ELSE <<"backend developer">>

extractCompanyName(jobDescription) ==
    IF jobDescription = "titled" THEN "Acme" ELSE "Unknown"

(***************************************************************************)
(* POST /api/analyze.                                                      *)
(***************************************************************************)
ErrorResponse(op, status, error) == [op |-> op, status |-> status, error |-> error]

\* src/server.js authenticateToken: the refusal it sends, or NoResponse when
\* it calls next(); a token is "none", "invalid" or the role it carries
authenticateToken(op, token) ==
    IF token = "none" THEN ErrorResponse(op, 401, "Access denied. No token provided.")
    ELSE IF token = "invalid" THEN ErrorResponse(op, 403, "Invalid or expired token")
    ELSE NoResponse

\* The middleware letting every verified token pass
requireAnyRole(op, token) == NoResponse

\* src/server.js requireAdmin
requireAdmin(op, token) ==
    IF token # "admin"
    THEN ErrorResponse(op, 403, "Access denied. Admin privileges required.")
    ELSE NoResponse

\* The guard of analyzeWithGemini testing the client only, not modelReady
AnalyzeRequestCheckingClientOnly(req) ==
    /\ UNCHANGED page
    /\ UNCHANGED <<now, genAI, modelReady, store>>
    /\ IF authenticateToken("analyze", req.token) # NoResponse
       THEN /\ response' = authenticateToken("analyze", req.token)
            /\ logs' = <<>>
            /\ UNCHANGED pending
       ELSE IF req.resumeText = "" \/ req.jobDescription = ""
       THEN /\ response' = ErrorResponse("analyze", 400,
                                         "Resume text and job description are required")
            /\ logs' = <<>>
            /\ UNCHANGED pending
       ELSE IF ~genAI
       THEN /\ response' = ErrorResponse("analyze", 500, "Analysis failed")
            /\ logs' = <<"Error in analysis">>
            /\ UNCHANGED pending
       ELSE /\ pending' = Append(pending, req)
            /\ UNCHANGED <<response, logs>>

\* The handler without its check of the two required fields
AnalyzeRequestWithoutFieldCheck(req) ==
    /\ UNCHANGED page
    /\ UNCHANGED <<now, genAI, modelReady, store>>
    /\ IF authenticateToken("analyze", req.token) # NoResponse
       THEN /\ response' = authenticateToken("analyze", req.token)
            /\ logs' = <<>>
            /\ UNCHANGED pending
       ELSE IF ~genAI \/ ~modelReady
       THEN /\ response' = ErrorResponse("analyze", 500, "Analysis failed")
            /\ logs' = <<"Error in analysis">>
            /\ UNCHANGED pending
       ELSE /\ pending' = Append(pending, req)
            /\ UNCHANGED <<response, logs>>

\* The handler up to `await analyzeWithGemini`: authenticateToken, the check of
\* the two required fields, and the guard at the head of analyzeWithGemini.
AnalyzeRequest(req) ==
    /\ UNCHANGED page
    /\ UNCHANGED <<now, genAI, modelReady, store>>
    /\ IF authenticateToken("analyze", req.token) # NoResponse
       THEN /\ response' = authenticateToken("analyze", req.token)
            /\ logs' = <<>>
            /\ UNCHANGED pending
       ELSE IF req.resumeText = "" \/ req.jobDescription = ""
       THEN /\ response' = ErrorResponse("analyze", 400,
                                         "Resume text and job description are required")
            /\ logs' = <<>>
            /\ UNCHANGED pending
       ELSE IF ~genAI \/ ~modelReady
       THEN /\ response' = ErrorResponse("analyze", 500, "Analysis failed")
            /\ logs' = <<"Error in analysis">>
            /\ UNCHANGED pending
       ELSE /\ pending' = Append(pending, req)
            /\ UNCHANGED <<response, logs>>

Without(seq, i) == SubSeq(seq, 1, i - 1) \o SubSeq(seq, i + 1, Len(seq))

\* The reply is counted before it is validated: a failed call leaves a counter
GeminiFailsAfterCounting(i) ==
    /\ UNCHANGED page
    /\ i \in 1..Len(pending)
    /\ pending' = Without(pending, i)
    /\ response' = ErrorResponse("analyze", 500, "Analysis failed")
    /\ logs' = <<"Gemini API Error", "Error in analysis">>
    /\ skill_analytics' = Upsert(skill_analytics,
                                 <<"unparsed", OrElse(pending[i].department, "Unknown")>>)
    /\ UNCHANGED <<now, genAI, modelReady, skill_gaps, trends>>

\* The AI call of pending request i throws, or its reply does not parse or
\* lacks matchPercentage or missingSkills: the handler's catch answers 500.
GeminiFails(i) ==
    /\ UNCHANGED page
    /\ i \in 1..Len(pending)
    /\ pending' = Without(pending, i)
    /\ response' = ErrorResponse("analyze", 500, "Analysis failed")
    /\ logs' = <<"Gemini API Error", "Error in analysis">>
    /\ UNCHANGED <<now, genAI, modelReady, store>>

\* The AI call of pending request i returns `analysis`: the rest of the
\* handler, storeToDatabase included, runs without interruption.
GeminiReplies(i, analysis, sameMs, insertFails, failSA, failTR) ==
    /\ UNCHANGED page
    /\ i \in 1..Len(pending)
    /\ failSA \subseteq 1..Len(analysis.missingSkills)
    /\ failTR \subseteq 1..Len(analysis.missingSkills)
    /\ LET req  == pending[i]
           ms   == IF sameMs /\ skill_gaps # <<>>
                        /\ skill_gaps[Len(skill_gaps)].timestamp = now
                   THEN skill_gaps[Len(skill_gaps)].student_id.ms
                   ELSE Len(skill_gaps) + 1
           data == [student_id       |-> generateStudentId(req.studentName, ms),
                    student_name     |-> IF req.studentName = <<>> THEN <<"Anonymous">>
                                         ELSE req.studentName,
                    department       |-> OrElse(req.department, "Unknown"),
                    academic_year    |-> OrElse(req.academicYear, "Not Specified"),
                    job_role         |-> extractJobRole(req.jobDescription),
                    company_name     |-> OrElse(req.companyName,
                                                extractCompanyName(req.jobDescription)),
                    match_percentage |-> analysis.matchPercentage,
                    missing_skills   |-> analysis.missingSkills,
                    matched_skills   |-> analysis.matchedSkills,
                    skill_priority   |-> analysis.skillPriority]
           out  == storeToDatabase(store, data, now, insertFails, failSA, failTR)
       IN  /\ skill_gaps' = out.db[1]
           /\ skill_analytics' = out.db[2]
           /\ trends' = out.db[3]
           /\ logs' = out.logs
           /\ response' = [op |-> "analyze", status |-> 200, body |-> analysis]
    /\ pending' = Without(pending, i)
    /\ UNCHANGED <<now, genAI, modelReady>>

\* src/server.js initializeGeminiModel: a model answers the probe, or none
\* does and the fallback name is taken; either way modelReady becomes true.
InitializeGeminiModel ==
    /\ UNCHANGED page
    /\ genAI /\ ~modelReady
    /\ modelReady' = TRUE
    /\ UNCHANGED <<now, genAI, pending, store, response, logs>>

\* The clock reaches a later day.
Tick(day) ==
    /\ UNCHANGED page
    /\ day > now
    /\ now' = day
    /\ UNCHANGED <<genAI, modelReady, pending, store, response, logs>>

(***************************************************************************)
(* GET /api/analytics.                                                     *)
(*                                                                         *)
(* GROUP BY returns its groups in the order of the grouping key; the names *)
(* of the model are listed in that order.  ORDER BY keeps rows with equal  *)
(* keys in the order they had.                                             *)
(***************************************************************************)
SkillNames == <<"go", "sql">>

DepartmentNames == <<"CS", "EE", "Unknown">>

AcademicYearNames == <<"2025", "2026", "Not Specified">>

CompanyNames == <<"Acme", "Unknown">>

TopSkillsLimit == 15

TrendingLimit == 10

CompanyLimit == 10

RecentLimit == 20

RECURSIVE SumSeq(_)
SumSeq(numbers) == IF numbers = <<>> THEN 0 ELSE Head(numbers) + SumSeq(Tail(numbers))

\* Math.round(sum / n) of non-negative integers, 0 for AVG over no row (null || 0)
RoundedAvg(sum, n) == IF n = 0 THEN 0 ELSE (2 * sum + n) \div (2 * n)

Limit(rows, n) == SubSeq(rows, 1, IF Len(rows) < n THEN Len(rows) ELSE n)

\* ORDER BY n DESC of rows that carry their sort key in field n
RECURSIVE InsertDesc(_, _)
InsertDesc(sorted, row) ==
    IF sorted = <<>> THEN <<row>>
    ELSE IF Head(sorted).n >= row.n THEN <<Head(sorted)>> \o InsertDesc(Tail(sorted), row)
    ELSE <<row>> \o sorted

\* The rows in the order they were inserted, the ORDER BY left out
Unordered(rows) == rows

RECURSIVE OrderByDesc(_)
OrderByDesc(rows) ==
    IF rows = <<>> THEN <<>>
    ELSE InsertDesc(OrderByDesc(SubSeq(rows, 1, Len(rows) - 1)), rows[Len(rows)])

\* The WHERE clause built from req.query: an absent value selects every row
Matches(row, query) ==
    /\ query.department = "" \/ row.department = query.department
    /\ query.academicYear = "" \/ row.academic_year = query.academicYear

\* The WHERE clause left out: every row is selected
NotFiltered(rows, query) == rows

Filtered(rows, query) == SelectSeq(rows, LAMBDA r : Matches(r, query))

\* A match_percentage is a whole number, or a text that is no number: the
\* column has REAL affinity, which keeps such a text as it is.  NotANumber
\* stands for that text.
NotANumber == 1000000

\* `r.match_percentage >= n` and `r.match_percentage < n` in JavaScript: the
\* text converts to NaN, and every comparison with NaN is false
AtLeast(p, n) == p # NotANumber /\ p >= n

Below(p, n) == p # NotANumber /\ p < n

Scores(rows) == [i \in 1..Len(rows) |-> rows[i].match_percentage]

\* The values AVG(match_percentage) adds up: a text that is no number counts as 0
SqlNumbers(scores) ==
    [i \in 1..Len(scores) |-> IF scores[i] = NotANumber THEN 0 ELSE scores[i]]

\* SELECT <column>, COUNT(*), AVG(match_percentage) FROM skill_gaps GROUP BY <column>
RECURSIVE GroupStats(_, _, _)
GroupStats(rows, column, names) ==
    IF names = <<>> THEN <<>>
    ELSE LET group == SelectSeq(rows, LAMBDA r : r[column] = Head(names))
         IN  (IF group = <<>> THEN <<>>
              ELSE <<[name |-> Head(names), n |-> Len(group),
                      avgMatch |-> RoundedAvg(SumSeq(SqlNumbers(Scores(group))),
                                           Len(group))]>>)
             \o GroupStats(rows, column, Tail(names))

\* SUM over the rows of a counter table picked by `keys`
RECURSIVE SumRows(_, _)
SumRows(table, keys) ==
    IF keys = {} THEN 0
    ELSE LET k == CHOOSE k \in keys : TRUE
         IN  table[k] + SumRows(table, keys \ {k})

\* SELECT skill_name, SUM(total_missing) as count FROM skill_analytics
\* GROUP BY skill_name ORDER BY count DESC LIMIT 15
RECURSIVE SkillGroups(_, _)
SkillGroups(table, names) ==
    IF names = <<>> THEN <<>>
    ELSE LET keys == {k \in DOMAIN table : k[1] = Head(names)}
         IN  (IF keys = {} THEN <<>>
              ELSE <<[skill_name |-> Head(names), n |-> SumRows(table, keys)]>>)
             \o SkillGroups(table, Tail(names))

topSkillsFromAnalytics(table) ==
    Limit(OrderByDesc(SkillGroups(table, SkillNames)), TopSkillsLimit)

\* SELECT skill_name, SUM(count) as total FROM trends WHERE year = ? AND
\* week_number >= ? GROUP BY skill_name ORDER BY total DESC LIMIT 10, bound to
\* the clock's calendar year and Math.max(1, currentWeek - 3)
RECURSIVE TrendGroups(_, _, _, _)
TrendGroups(table, names, year, fromWeek) ==
    IF names = <<>> THEN <<>>
    ELSE LET keys == {k \in DOMAIN table :
                        k[1] = Head(names) /\ k[3] = year /\ k[2] >= fromWeek}
         IN  (IF keys = {} THEN <<>>
              ELSE <<[skill_name |-> Head(names), n |-> SumRows(table, keys)]>>)
             \o TrendGroups(table, Tail(names), year, fromWeek)

trendingSkills(table, date) ==
    LET currentWeek == getWeekNumber(date)
        currentYear == getFullYear(date)
        fromWeek    == IF currentWeek - 3 > 1 THEN currentWeek - 3 ELSE 1
    IN  Limit(OrderByDesc(TrendGroups(table, SkillNames, currentYear, fromWeek)),
              TrendingLimit)

\* The high band starting above 80
matchDistributionAbove80(scores) ==
    [high    |-> Len(SelectSeq(scores, LAMBDA p : p > 80)),
     medium  |-> Len(SelectSeq(scores, LAMBDA p : p >= 60 /\ p <= 80)),
     low     |-> Len(SelectSeq(scores, LAMBDA p : p >= 40 /\ p < 60)),
     veryLow |-> Len(SelectSeq(scores, LAMBDA p : p < 40))]

\* The four filters over the match_percentage column
matchDistribution(scores) ==
    [high    |-> Len(SelectSeq(scores, LAMBDA p : AtLeast(p, 80))),
     medium  |-> Len(SelectSeq(scores, LAMBDA p : AtLeast(p, 60) /\ Below(p, 80))),
     low     |-> Len(SelectSeq(scores, LAMBDA p : AtLeast(p, 40) /\ Below(p, 60))),
     veryLow |-> Len(SelectSeq(scores, LAMBDA p : Below(p, 40)))]

\* Array.from of a Set filled by forEach: first occurrences, in order
RECURSIVE AddAll(_, _)
AddAll(seen, items) ==
    IF items = <<>> THEN seen
    ELSE AddAll(IF Head(items) \in {seen[i] : i \in 1..Len(seen)} THEN seen
                ELSE Append(seen, Head(items)),
                Tail(items))

\* JSON.parse(record.skill_priority || "{}") and `if (priority.<tier>)` inside
\* the try of one record: the array of the tier, or nothing when the stored
\* text does not parse (the catch is empty) or holds no such tier.  A stored
\* text that parses is kept as the object it parses to, one that does not as
\* [unparsable |-> the text].
PriorityItems(stored, tier) == IF tier \in DOMAIN stored THEN stored[tier] ELSE <<>>

\* One try around the whole forEach: the first text that does not parse ends it
RECURSIVE PriorityUnionAborting(_, _, _)
PriorityUnionAborting(seen, rows, tier) ==
    IF rows = <<>> \/ "unparsable" \in DOMAIN Head(rows).skill_priority THEN seen
    ELSE PriorityUnionAborting(AddAll(seen, PriorityItems(Head(rows).skill_priority, tier)),
                               Tail(rows), tier)

RECURSIVE PriorityUnion(_, _, _)
PriorityUnion(seen, rows, tier) ==
    IF rows = <<>> THEN seen
    ELSE PriorityUnion(AddAll(seen, PriorityItems(Head(rows).skill_priority, tier)),
                       Tail(rows), tier)

skillPriorityBreakdown(rows) ==
    [critical  |-> PriorityUnion(<<>>, rows, "critical"),
     important |-> PriorityUnion(<<>>, rows, "important"),
     optional  |-> PriorityUnion(<<>>, rows, "optional")]

\* SELECT * FROM skill_gaps WHERE ... ORDER BY timestamp DESC LIMIT 20, mapped
\* to the dashboard's activity entries
recentActivity(rows, query) ==
    LET ids    == SelectSeq([i \in 1..Len(rows) |-> i], LAMBDA i : Matches(rows[i], query))
        keyed  == [j \in 1..Len(ids) |-> [id |-> ids[j], n |-> rows[ids[j]].timestamp]]
        recent == Limit(OrderByDesc(keyed), RecentLimit)
    IN  [j \in 1..Len(recent) |->
            LET r == rows[recent[j].id]
            IN  [id          |-> recent[j].id,
                 studentName |-> r.student_name,
                 timestamp   |-> r.timestamp,
                 department  |-> r.department,
                 academicYear |-> r.academic_year,
                 jobRole     |-> r.job_role,
                 companyName |-> r.company_name,
                 matchScore  |-> r.match_percentage,
                 topSkills   |-> Limit(JSONparse(r.missing_skills), 3)]]

\* Property access on a row object: undefined when the row has no such column
Get(row, field) == IF field \in DOMAIN row THEN row[field] ELSE "undefined"

\* The first rule with the threshold met at 5
CriticalAlertFrom5(topSkills) ==
    IF topSkills # <<>> /\ topSkills[1].count >= 5
    THEN <<[severity |-> "critical",
            title    |-> <<"High Demand: ", Get(topSkills[1], "skill")>>,
            count    |-> topSkills[1].count,
            action   |-> "Schedule Workshop"]>>
    ELSE <<>>

\* src/server.js generateEnhancedAlerts, critical skill gap alert
CriticalAlert(topSkills) ==
    IF topSkills # <<>> /\ topSkills[1].count > 5
    THEN <<[severity |-> "critical",
            title    |-> <<"High Demand: ", Get(topSkills[1], "skill")>>,
            count    |-> topSkills[1].count,
            action   |-> "Schedule Workshop"]>>
    ELSE <<>>

\* src/server.js generateEnhancedAlerts, trending skill alert
TrendingAlert(trending) ==
    IF trending # <<>>
    THEN <<[severity |-> "warning",
            title    |-> <<"Trending Skill Gap: ", Get(trending[1], "skill")>>,
            count    |-> trending[1].total,
            action   |-> "Add to Curriculum"]>>
    ELSE <<>>

\* The third rule with the threshold met at 40
ReadinessAlertFrom40(distribution) ==
    LET totalStudents == distribution.high + distribution.medium
                         + distribution.low + distribution.veryLow
        lowOnes       == distribution.low + distribution.veryLow
    IN  IF totalStudents # 0 /\ lowOnes * 100 >= 40 * totalStudents
        THEN <<[severity |-> "warning",
                title    |-> <<"Overall Readiness Concern">>,
                percent  |-> (2 * lowOnes * 100 + totalStudents) \div (2 * totalStudents),
                action   |-> "Review Curriculum"]>>
        ELSE <<>>

\* The third rule written as `!(lowMatchPercentage <= 40)`, which NaN passes
ReadinessAlertUnlessAtMost40(distribution) ==
    LET totalStudents == distribution.high + distribution.medium
                         + distribution.low + distribution.veryLow
        lowOnes       == distribution.low + distribution.veryLow
    IN  IF totalStudents = 0 \/ lowOnes * 100 > 40 * totalStudents
        THEN <<[severity |-> "warning",
                title    |-> <<"Overall Readiness Concern">>,
                percent  |-> IF totalStudents = 0 THEN 0
                             ELSE (2 * lowOnes * 100 + totalStudents)
                                  \div (2 * totalStudents),
                action   |-> "Review Curriculum"]>>
        ELSE <<>>

\* src/server.js generateEnhancedAlerts, low match percentage alert:
\* (low + veryLow) / 0 * 100 is NaN, and NaN > 40 is false; percent is the
\* Math.round(lowMatchPercentage) shown in the description
ReadinessAlert(distribution) ==
    LET totalStudents == distribution.high + distribution.medium
                         + distribution.low + distribution.veryLow
        lowOnes       == distribution.low + distribution.veryLow
    IN  IF totalStudents # 0 /\ lowOnes * 100 > 40 * totalStudents
        THEN <<[severity |-> "warning",
                title    |-> <<"Overall Readiness Concern">>,
                percent  |-> (2 * lowOnes * 100 + totalStudents) \div (2 * totalStudents),
                action   |-> "Review Curriculum"]>>
        ELSE <<>>

\* src/server.js generateEnhancedAlerts, called with the rows of the two
\* queries (columns skill_name and count or total) and the distribution
generateEnhancedAlerts(topSkills, trending, distribution) ==
    CriticalAlert(topSkills) \o TrendingAlert(trending) \o ReadinessAlert(distribution)

\* The body of res.json in the handler of GET /api/analytics
Snapshot(rows, analytics, trendTable, query, date) ==
    LET filtered     == Filtered(rows, query)
        deptStats    == GroupStats(rows, "department", DepartmentNames)
        yearStats    == GroupStats(rows, "academic_year", AcademicYearNames)
        companyStats == Limit(OrderByDesc(GroupStats(rows, "company_name", CompanyNames)),
                              CompanyLimit)
        topRows      == [i \in 1..Len(topSkillsFromAnalytics(analytics)) |->
                            [skill_name |-> topSkillsFromAnalytics(analytics)[i].skill_name,
                             count      |-> topSkillsFromAnalytics(analytics)[i].n]]
        trendRows    == [i \in 1..Len(trendingSkills(trendTable, date)) |->
                            [skill_name |-> trendingSkills(trendTable, date)[i].skill_name,
                             total      |-> trendingSkills(trendTable, date)[i].n]]
        distribution == matchDistribution(Scores(filtered))
    IN  [stats |->
            [totalStudents      |-> Cardinality({filtered[i].student_id : i \in 1..Len(filtered)}),
             uniqueSkills       |-> Len(topRows),
             averageMatch       |-> RoundedAvg(SumSeq(SqlNumbers(Scores(filtered))),
                                              Len(filtered)),
             totalDepartments   |-> Len(deptStats),
             totalAcademicYears |-> Len(SelectSeq(yearStats, LAMBDA y : y.name # "Not Specified")),
             totalCompanies     |-> Len(SelectSeq(companyStats, LAMBDA c : c.name # "Unknown"))],
         topMissingSkills |->
            [i \in 1..Len(topRows) |-> [skill |-> topRows[i].skill_name, count |-> topRows[i].count]],
         skillPriorityBreakdown |-> skillPriorityBreakdown(filtered),
         departmentStats |->
            [i \in 1..Len(deptStats) |-> [department |-> deptStats[i].name,
                                          count |-> deptStats[i].n,
                                          avgMatch |-> deptStats[i].avgMatch]],
         academicYearStats |->
            [i \in 1..Len(yearStats) |-> [year |-> yearStats[i].name,
                                          count |-> yearStats[i].n,
                                          avgMatch |-> yearStats[i].avgMatch]],
         companyStats |->
            [i \in 1..Len(companyStats) |-> [company |-> companyStats[i].name,
                                             studentCount |-> companyStats[i].n,
                                             avgReadiness |-> companyStats[i].avgMatch]],
         trendingSkills |->
            [i \in 1..Len(trendRows) |-> [skill |-> trendRows[i].skill_name,
                                          total |-> trendRows[i].total,
                                          trend |-> "increasing"]],
         recentActivity |-> recentActivity(rows, query),
         alerts |-> generateEnhancedAlerts(topRows, trendRows, distribution),
         matchDistribution |-> distribution]

\* The handler with its alerts array kept between calls
AnalyticsKeepingAlerts(req) ==
    /\ UNCHANGED page
    /\ response' =
          IF authenticateToken("analytics", req.token) # NoResponse
          THEN authenticateToken("analytics", req.token)
          ELSE IF requireAdmin("analytics", req.token) # NoResponse
          THEN requireAdmin("analytics", req.token)
          ELSE LET body == Snapshot(skill_gaps, skill_analytics, trends, req, now)
                   kept == IF response.op = "analytics" /\ response.status = 200
                           THEN response.body.alerts ELSE <<>>
               IN  [op |-> "analytics", status |-> 200, query |-> req, at |-> now,
                    again |-> response.op = "analytics" /\ response.status = 200
                              /\ response.query = req,
                    body |-> [body EXCEPT !.alerts = kept \o @]]
    /\ logs' = <<>>
    /\ UNCHANGED <<now, genAI, modelReady, pending, store>>

\* The handler counting each call of the dashboard in the trends table
AnalyticsCountingViews(req) ==
    /\ UNCHANGED page
    /\ response' =
          IF authenticateToken("analytics", req.token) # NoResponse
          THEN authenticateToken("analytics", req.token)
          ELSE IF requireAdmin("analytics", req.token) # NoResponse
          THEN requireAdmin("analytics", req.token)
          ELSE [op |-> "analytics", status |-> 200, query |-> req, at |-> now,
                again |-> response.op = "analytics" /\ response.status = 200
                          /\ response.query = req,
                body |-> Snapshot(skill_gaps, skill_analytics, trends, req, now)]
    /\ logs' = <<>>
    /\ trends' = Upsert(trends, <<"dashboard", getWeekNumber(now), getFullYear(now)>>)
    /\ UNCHANGED <<now, genAI, modelReady, pending, skill_gaps, skill_analytics>>

\* The handler of GET /api/analytics behind authenticateToken and
\* requireAdmin; it reads the tables and the clock.  Beside the body sent, the
\* response records the query, the day of the call, and whether the handler
\* that ran before answered the same query.
Analytics(req) ==
    /\ UNCHANGED page
    /\ response' =
          IF authenticateToken("analytics", req.token) # NoResponse
          THEN authenticateToken("analytics", req.token)
          ELSE IF requireAdmin("analytics", req.token) # NoResponse
          THEN requireAdmin("analytics", req.token)
          ELSE [op |-> "analytics", status |-> 200, query |-> req, at |-> now,
                again |-> response.op = "analytics" /\ response.status = 200
                          /\ response.query = req,
                body |-> Snapshot(skill_gaps, skill_analytics, trends, req, now)]
    /\ logs' = <<>>
    /\ UNCHANGED <<now, genAI, modelReady, pending, store>>

\* src/server.js getMockAnalytics
getMockAnalytics ==
    [stats |-> [totalStudents |-> 0, uniqueSkills |-> 0, averageMatch |-> 0,
                totalDepartments |-> 0],
     alerts |-> <<>>,
     topMissingSkills |-> <<>>,
     departmentStats |-> <<>>,
     matchDistribution |-> [high |-> 0, medium |-> 0, low |-> 0, veryLow |-> 0],
     trends |-> <<>>,
     recentActivity |-> <<>>]

\* The catch of the handler passing the error on to the caller
AnalyticsFailsWith500(req) ==
    /\ UNCHANGED page
    /\ response' =
          IF authenticateToken("analytics", req.token) # NoResponse
          THEN authenticateToken("analytics", req.token)
          ELSE IF requireAdmin("analytics", req.token) # NoResponse
          THEN requireAdmin("analytics", req.token)
          ELSE ErrorResponse("analytics", 500, "Analytics error")
    /\ logs' = IF req.token = "admin" THEN <<"Analytics error">> ELSE <<>>
    /\ UNCHANGED <<now, genAI, modelReady, pending, store>>

\* The handler of GET /api/analytics when a statement inside its try throws
\* (a query the database refuses, a stored missing_skills text that does not
\* parse): the catch logs the error and sends getMockAnalytics().
AnalyticsFails(req) ==
    /\ UNCHANGED page
    /\ response' =
          IF authenticateToken("analytics", req.token) # NoResponse
          THEN authenticateToken("analytics", req.token)
          ELSE IF requireAdmin("analytics", req.token) # NoResponse
          THEN requireAdmin("analytics", req.token)
          ELSE [op |-> "analytics", status |-> 200, query |-> req, at |-> now,
                again |-> FALSE, body |-> getMockAnalytics]
    /\ logs' = IF req.token = "admin" THEN <<"Analytics error">> ELSE <<>>
    /\ UNCHANGED <<now, genAI, modelReady, pending, store>>

(***************************************************************************)
(* GET /api/export.                                                        *)
(***************************************************************************)
ExportColumns ==
    <<"student_name", "department", "academic_year", "job_role", "company_name",
      "match_percentage", "missing_skills", "matched_skills", "timestamp">>

\* The value of a column as JavaScript sees it: its type and its characters
Cell(row, column) ==
    CASE column \in {"student_name", "job_role", "missing_skills", "matched_skills"} ->
            [type |-> "string", text |-> row[column]]
      [] column = "match_percentage" ->
            [type |-> "number", text |-> <<ToString(row[column])>>]
      [] column = "timestamp" ->
            [type |-> "string", text |-> <<ToString(row[column])>>]
      [] OTHER ->
            [type |-> "string", text |-> <<row[column]>>]

\* SELECT student_name, ..., timestamp FROM skill_gaps WHERE ... ORDER BY timestamp DESC
ExportData(rows, query) ==
    LET ids    == SelectSeq([i \in 1..Len(rows) |-> i], LAMBDA i : Matches(rows[i], query))
        keyed  == [j \in 1..Len(ids) |-> [id |-> ids[j], n |-> rows[ids[j]].timestamp]]
        sorted == OrderByDesc(keyed)
    IN  [j \in 1..Len(sorted) |->
            [c \in 1..Len(ExportColumns) |-> Cell(rows[sorted[j].id], ExportColumns[c])]]

\* Array.prototype.join
RECURSIVE Join(_, _)
Join(texts, separator) ==
    IF texts = <<>> THEN <<>>
    ELSE IF Len(texts) = 1 THEN texts[1]
    ELSE texts[1] \o <<separator>> \o Join(Tail(texts), separator)

\* One value of a row: a string is wrapped in quotes with its quotes doubled,
\* a number is written as it is
CSVValue(cell) ==
    IF cell.type = "string" THEN <<Quote>> \o DoubleQuotes(cell.text) \o <<Quote>>
    ELSE cell.text

\* src/server.js convertToCSV
convertToCSV(data) ==
    IF Len(data) = 0 THEN <<>>
    ELSE LET headers == [c \in 1..Len(ExportColumns) |-> <<ExportColumns[c]>>]
             lines   == [j \in 1..Len(data) |->
                            Join([c \in 1..Len(data[j]) |-> CSVValue(data[j][c])], ",")]
         IN  Join(<<Join(headers, ",")>> \o lines, "\n")

\* The handler of GET /api/export; no middleware guards it
Export(req) ==
    /\ UNCHANGED page
    /\ response' =
          IF req.format = "csv"
          THEN [op |-> "export", status |-> 200, query |-> req,
                csv |-> convertToCSV(ExportData(skill_gaps, req))]
          ELSE [op |-> "export", status |-> 200, query |-> req,
                data |-> ExportData(skill_gaps, req),
                total |-> Len(ExportData(skill_gaps, req))]
    /\ logs' = <<>>
    /\ UNCHANGED <<now, genAI, modelReady, pending, store>>

(***************************************************************************)
(* The admin page (src/public/js/admin.js).  Each chart has a slot: a key  *)
(* of `charts` and a <canvas> element in a container of its own.           *)
(***************************************************************************)
ChartSlots ==
    <<"topSkills", "matchDist", "department", "yearChart", "companyChart",
      "trendingChart", "priorityChart">>

Slots == {ChartSlots[i] : i \in 1..Len(ChartSlots)}

\* The page before its first updateDashboard call
NotLoaded == [called |-> FALSE, completed |-> FALSE, rendered |-> {}]

\* The test that sends an update<Slot>Chart function into its empty-state
\* branch; updateMatchDistChart has no such branch
IsEmptyFor(data, slot) ==
    CASE slot = "topSkills"     -> data.topMissingSkills = <<>>
      [] slot = "matchDist"     -> FALSE
      [] slot = "department"    -> data.departmentStats = <<>>
      [] slot = "yearChart"     -> data.academicYearStats = <<>>
      [] slot = "companyChart"  -> data.companyStats = <<>>
      [] slot = "trendingChart" -> data.trendingSkills = <<>>
      [] slot = "priorityChart" ->
            Len(data.skillPriorityBreakdown.critical)
               + Len(data.skillPriorityBreakdown.important)
               + Len(data.skillPriorityBreakdown.optional) = 0

\* One update<Slot>Chart function: getElementById, destroy of the chart held
\* for the slot, then either the empty-state branch, which replaces the
\* innerHTML of the canvas's container and with it the canvas, or new Chart.
\* getElementById returns null once the canvas is gone: `ctx.parentElement`
\* then throws a TypeError, and `new Chart(null, ...)` either throws or gives
\* an object that draws nothing, depending on the Chart.js build (chartThrows).
updateChart(pg, slot, empty, chartThrows) ==
    IF pg.thrown THEN pg
    ELSE LET destroyed ==
                IF pg.charts[slot] = "live"
                THEN [pg EXCEPT !.charts[slot] = "destroyed", !.live[slot] = @ - 1]
                ELSE pg
         IN  IF empty
             THEN IF destroyed.canvas[slot]
                  THEN [destroyed EXCEPT !.canvas[slot] = FALSE]
                  ELSE [destroyed EXCEPT !.thrown = TRUE]
             ELSE IF destroyed.canvas[slot]
                  THEN [destroyed EXCEPT !.charts[slot] = "live", !.live[slot] = @ + 1,
                                         !.rendered = @ \cup {slot}]
                  ELSE IF chartThrows
                  THEN [destroyed EXCEPT !.thrown = TRUE]
                  ELSE [destroyed EXCEPT !.charts[slot] = "inert"]

\* src/public/js/admin.js updateDashboard: the chart updates in the order of
\* the source; an exception in one of them ends the call
RECURSIVE UpdateCharts(_, _, _, _)
UpdateCharts(pg, data, chartThrows, i) ==
    IF i > Len(ChartSlots) THEN pg
    ELSE UpdateCharts(updateChart(pg, ChartSlots[i], IsEmptyFor(data, ChartSlots[i]),
                                  chartThrows),
                      data, chartThrows, i + 1)

updateDashboard(pg, data, chartThrows) == UpdateCharts(pg, data, chartThrows, 1)

\* loadDashboardData or applyFilters after its fetch of /api/analytics was
\* answered 200: updateDashboard runs on the snapshot received
UpdateDashboard(chartThrows) ==
    /\ response.op = "analytics" /\ response.status = 200
    /\ LET out == updateDashboard([canvas |-> canvas, charts |-> charts, live |-> live,
                                   thrown |-> FALSE, rendered |-> {}],
                                  response.body, chartThrows)
       IN  /\ canvas' = out.canvas
           /\ charts' = out.charts
           /\ live' = out.live
           /\ dashboard' = [called |-> TRUE, completed |-> ~out.thrown,
                            rendered |-> out.rendered]
    /\ UNCHANGED <<now, genAI, modelReady, pending, store, response, logs>>

(***************************************************************************)
(* Inputs.                                                                 *)
(***************************************************************************)
Body(token, resumeText, jobDescription, studentName, department, academicYear, companyName) ==
    [token |-> token, resumeText |-> resumeText, jobDescription |-> jobDescription,
     studentName |-> studentName, department |-> department,
     academicYear |-> academicYear, companyName |-> companyName]

Analysis(matchPercentage, missingSkills, critical, important, optional) ==
    [matchPercentage |-> matchPercentage, missingSkills |-> missingSkills,
     matchedSkills |-> <<"js">>,
     skillPriority |-> [critical |-> critical, important |-> important,
                        optional |-> optional]]

\* What the AI may answer for each resume of the model
GeminiAnswers(resumeText) ==
    CASE resumeText = "cvA" ->
            { Analysis(70, <<"sql">>, <<"sql">>, <<>>, <<>>),
              Analysis(70, <<"sql", "sql">>, <<"sql">>, <<>>, <<>>),
              Analysis(70, <<"sql", "go">>, <<"sql">>, <<"go">>, <<>>) }
      [] resumeText = "cvB" ->
            { Analysis(70, <<"go", "sql">>, <<>>, <<"go">>, <<"sql">>) }
      [] resumeText = "cvC" ->
            { Analysis(80, <<"sql", "sql">>, <<"sql">>, <<>>, <<>>),
              Analysis(79, <<"sql">>, <<>>, <<"sql">>, <<>>),
              Analysis(60, <<"go">>, <<"go">>, <<>>, <<>>),
              Analysis(59, <<"sql", "sql">>, <<>>, <<>>, <<"sql">>),
              Analysis(40, <<>>, <<>>, <<>>, <<>>),
              Analysis(39, <<"go", "sql">>, <<"go">>, <<"sql">>, <<>>) }
      [] resumeText = "cvD" ->
            { Analysis(45, <<"sql", "sql">>, <<"sql">>, <<>>, <<>>) }
      [] resumeText = "cvF" ->
            { Analysis(70, <<>>, <<>>, <<>>, <<>>),
              Analysis(50, <<>>, <<>>, <<>>, <<>>) }
      [] resumeText = "cvG" ->
            { Analysis(61, <<"go", "sql", "go", "sql">>, <<"go">>, <<"sql">>, <<>>) }
      [] resumeText = "cvH" ->
            { Analysis(NotANumber, <<"sql">>, <<"sql">>, <<>>, <<>>),
              Analysis(85, <<"go">>, <<"go">>, <<>>, <<>>) }
      [] resumeText = "cvE" ->
            { Analysis(150, <<"sql">>, <<"sql">>, <<>>, <<>>),
              Analysis(-5, <<"go">>, <<>>, <<>>, <<"go">>),
              Analysis(100, <<>>, <<>>, <<>>, <<>>) }
      [] OTHER -> {}

\* Which statements of storeToDatabase throw
Failure(insertFails, failSA, failTR) ==
    [insertFails |-> insertFails, failSA |-> failSA, failTR |-> failTR]

NoFailure == Failure(FALSE, {}, {})

(***************************************************************************)
(* The ingestion runs: two resumes, statement failures, and a clock that   *)
(* passes from the Sunday of ISO week 52 of 2024 to the Tuesday and the    *)
(* Thursday of ISO week 1 of 2025.                                         *)
(***************************************************************************)
Requests ==
    { Body("student", "cvA", "titled", <<"Ann">>, "CS", "2025", ""),
      Body("student", "cvB", "plain", <<>>, "", "", "") }

Failures ==
    { NoFailure, Failure(TRUE, {}, {}), Failure(FALSE, {1}, {}),
      Failure(FALSE, {}, {2}), Failure(FALSE, {2}, {1}) }

Days == {DateUTC(2024, 12, 29), DateUTC(2024, 12, 31), DateUTC(2025, 1, 2)}

Init ==
    /\ now = DateUTC(2024, 12, 29)
    /\ genAI \in BOOLEAN
    /\ modelReady = FALSE
    /\ pending = <<>>
    /\ skill_gaps = <<>>
    /\ skill_analytics = EmptyTable
    /\ trends = EmptyTable
    /\ response = NoResponse
    /\ logs = <<>>
    /\ canvas = [slot \in Slots |-> TRUE]
    /\ charts = [slot \in Slots |-> "none"]
    /\ live = [slot \in Slots |-> 0]
    /\ dashboard = NotLoaded

Next ==
    \/ InitializeGeminiModel
    \/ \E req \in Requests :
          /\ Len(skill_gaps) + Len(pending) < MaxRecords
          /\ Len(pending) < MaxPending
          /\ AnalyzeRequest(req)
    \/ \E i \in 1..Len(pending) : GeminiFails(i)
    \/ \E i \in 1..Len(pending) :
          \E analysis \in GeminiAnswers(pending[i].resumeText), f \in Failures :
             GeminiReplies(i, analysis, FALSE, f.insertFails, f.failSA, f.failTR)
    \/ \E day \in Days : Tick(day)

Spec == Init /\ [][Next]_vars

\* The same runs with every statement of storeToDatabase succeeding
NextWeeks ==
    \/ InitializeGeminiModel
    \/ \E req \in Requests :
          /\ Len(skill_gaps) + Len(pending) < MaxRecords
          /\ Len(pending) < MaxPending
          /\ AnalyzeRequest(req)
    \/ \E i \in 1..Len(pending) : GeminiFails(i)
    \/ \E i \in 1..Len(pending) :
          \E analysis \in GeminiAnswers(pending[i].resumeText) :
             GeminiReplies(i, analysis, FALSE, FALSE, {}, {})
    \/ \E day \in Days : Tick(day)

SpecWeeks == Init /\ [][NextWeeks]_vars

(***************************************************************************)
(* Properties of the ingestion recorder.                                   *)
(***************************************************************************)
Range(seq) == {seq[i] : i \in 1..Len(seq)}

\* The counter of a row, 0 when the row does not exist
Count(table, key) == IF key \in DOMAIN table THEN table[key] ELSE 0

\* How often a skill occurs at the positions of a list outside `skip`
Occurrences(list, skill, skip) ==
    Cardinality({j \in 1..Len(list) : list[j] = skill /\ j \notin skip})

\* C1: a submission whose statements all succeed adds exactly one skill_gaps
\* row and raises the skill_analytics counter of (skill, department) by exactly
\* 1 for each distinct skill of its missing-skill list (a missing row counts 0).
C1_RecordCountsEachDistinctSkillOnce ==
    [][\A i \in 1..Len(pending) :
         \A analysis \in GeminiAnswers(pending[i].resumeText) :
            GeminiReplies(i, analysis, FALSE, FALSE, {}, {}) =>
               /\ Len(skill_gaps') = Len(skill_gaps) + 1
               /\ \A skill \in Range(analysis.missingSkills) :
                     LET key == <<skill, OrElse(pending[i].department, "Unknown")>>
                     IN  Count(skill_analytics', key) = Count(skill_analytics, key) + 1
      ]_vars

Skills == {"sql", "go"}

\* The ISO-8601 year of a date: the calendar year of the Thursday of its week
ISOYear(date) ==
    getFullYear(date + 4 - (IF getUTCDay(date) = 0 THEN 7 ELSE getUTCDay(date)))

\* How often a skill was reported missing by the submissions recorded in an ISO week
RECURSIVE Appearances(_, _, _, _)
Appearances(rows, skill, week, isoYear) ==
    IF rows = <<>> THEN 0
    ELSE (IF getWeekNumber(Head(rows).timestamp) = week
             /\ ISOYear(Head(rows).timestamp) = isoYear
          THEN Occurrences(JSONparse(Head(rows).missing_skills), skill, {})
          ELSE 0)
         + Appearances(Tail(rows), skill, week, isoYear)

\* C2: for every ISO week in which a submission was recorded and every skill,
\* the trends row (skill, week, year of that week) counts the times the skill
\* appeared in the missing-skill lists of the submissions recorded that week.
C2_TrendRowSumsTheWeek ==
    \A n \in 1..Len(skill_gaps), skill \in Skills :
       LET week    == getWeekNumber(skill_gaps[n].timestamp)
           isoYear == ISOYear(skill_gaps[n].timestamp)
       IN  Count(trends, <<skill, week, isoYear>>)
              = Appearances(skill_gaps, skill, week, isoYear)

\* C3: a submission recorded on a December 31 that lies in ISO week 1 raises
\* the trends rows keyed by week 1 of the following year, and leaves the rows
\* keyed by week 1 of its calendar year alone.
C3_December31CountsForNextYear ==
    [][\A i \in 1..Len(pending) :
         \A analysis \in GeminiAnswers(pending[i].resumeText) :
            ( /\ GeminiReplies(i, analysis, FALSE, FALSE, {}, {})
              /\ now = DateUTC(getFullYear(now), 12, 31)
              /\ getWeekNumber(now) = 1 ) =>
               \A skill \in Range(analysis.missingSkills) :
                  /\ Count(trends', <<skill, 1, getFullYear(now) + 1>>)
                        > Count(trends, <<skill, 1, getFullYear(now) + 1>>)
                  /\ Count(trends', <<skill, 1, getFullYear(now)>>)
                        = Count(trends, <<skill, 1, getFullYear(now)>>)
      ]_vars

\* C9: when the record is inserted and counter statements of some skills throw,
\* the record stays, every other position of the list is still counted in
\* skill_analytics and in trends, each failure is logged, and the request is
\* answered as usual.
C9_FailedUpsertIsSkipped ==
    [][\A i \in 1..Len(pending) :
         \A analysis \in GeminiAnswers(pending[i].resumeText), f \in Failures :
            ( /\ GeminiReplies(i, analysis, FALSE, f.insertFails, f.failSA, f.failTR)
              /\ ~f.insertFails
              /\ f.failSA \cup f.failTR # {} ) =>
               LET list == analysis.missingSkills
                   dept == OrElse(pending[i].department, "Unknown")
               IN  /\ skill_gaps' # <<>>
                   /\ SubSeq(skill_gaps', 1, Len(skill_gaps)) = skill_gaps
                   /\ Len(skill_gaps') = Len(skill_gaps) + 1
                   /\ \A skill \in Skills :
                         /\ Count(skill_analytics', <<skill, dept>>)
                               = Count(skill_analytics, <<skill, dept>>)
                                 + Occurrences(list, skill, f.failSA)
                         /\ Count(trends', <<skill, getWeekNumber(now), getFullYear(now)>>)
                               = Count(trends, <<skill, getWeekNumber(now), getFullYear(now)>>)
                                 + Occurrences(list, skill, f.failTR)
                   /\ Len(SelectSeq(logs', LAMBDA l : l = "Error updating skill analytics"))
                         = Cardinality(f.failSA)
                   /\ Len(SelectSeq(logs', LAMBDA l : l = "Error updating trends"))
                         = Cardinality(f.failTR)
                   /\ response'.status = 200
      ]_vars

\* A request whose first skill_analytics statement threw was logged, its
\* record is stored and a later skill of its list was still counted
C9_Witness ==
    /\ "Error updating skill analytics" \in Range(logs)
    /\ "Data stored in database" \in Range(logs)
    /\ skill_gaps # <<>>
    /\ \E skill \in Skills : Count(skill_analytics, <<skill, "CS">>) > 0

\* C10: a request whose INSERT INTO skill_gaps threw is not answered with a
\* success response.
C10_FailedInsertIsReported ==
    (response.op = "analyze" /\ "Database storage error" \in Range(logs))
       => response.status # 200

(***************************************************************************)
(* The aggregation runs: records with scores at the edges of the bands and *)
(* with quotes in their names, read by the dashboard and by the export.    *)
(***************************************************************************)
AggRequests ==
    { Body("student", "cvC", "titled", <<"Ann">>, "CS", "2025", ""),
      Body("student", "cvD", "plain", <<"O", Quote, "Hara, ", Quote, "Al", Quote>>,
           "EE", "2026", "") }

Query(token, department, academicYear) ==
    [token |-> token, department |-> department, academicYear |-> academicYear]

AggQueries == {Query("admin", "", ""), Query("admin", "CS", ""), Query("admin", "", "2026")}

ExportQuery(format, department, academicYear) ==
    [format |-> format, department |-> department, academicYear |-> academicYear]

ExportQueries ==
    {ExportQuery("csv", "", ""), ExportQuery("csv", "EE", ""), ExportQuery("json", "", "")}

NextAgg ==
    \/ InitializeGeminiModel
    \/ \E req \in AggRequests :
          /\ Len(skill_gaps) + Len(pending) < MaxAggRecords
          /\ Len(pending) < MaxPending
          /\ AnalyzeRequest(req)
    \/ \E i \in 1..Len(pending) :
          \E analysis \in GeminiAnswers(pending[i].resumeText) :
             GeminiReplies(i, analysis, FALSE, FALSE, {}, {})
    \/ \E req \in AggQueries : Analytics(req)
    \/ \E req \in ExportQueries : Export(req)

SpecAgg == Init /\ [][NextAgg]_vars

\* The dashboard read while the clock passes the turn of the year
ClockDays == {DateUTC(2024, 12, 29), DateUTC(2025, 1, 2), DateUTC(2025, 1, 3)}

NextClock ==
    \/ InitializeGeminiModel
    \/ \E req \in Requests :
          /\ Len(skill_gaps) + Len(pending) < MaxRecords
          /\ Len(pending) < MaxPending
          /\ AnalyzeRequest(req)
    \/ \E i \in 1..Len(pending) :
          \E analysis \in GeminiAnswers(pending[i].resumeText) :
             GeminiReplies(i, analysis, FALSE, FALSE, {}, {})
    \/ \E req \in AggQueries : Analytics(req)
    \/ \E day \in ClockDays : Tick(day)

SpecClock == Init /\ [][NextClock]_vars

(***************************************************************************)
(* Properties of the aggregation, the alerts and the export.               *)
(***************************************************************************)
Answered(op) == response.op = op /\ response.status = 200

NoFilter(query) == query.department = "" /\ query.academicYear = ""

Severities(alerts) == [i \in 1..Len(alerts) |-> alerts[i].severity]

\* C4: with no record and no counter in the store, the snapshot of an
\* unfiltered call has totalStudents 0, averageMatch 0, every list empty, the
\* alerts included, and a distribution of four zeros.
C4_EmptyStoreGivesZeroSnapshot ==
    ( /\ Answered("analytics") /\ NoFilter(response.query)
      /\ skill_gaps = <<>> /\ DOMAIN skill_analytics = {} /\ DOMAIN trends = {} ) =>
        /\ response.body.stats.totalStudents = 0
        /\ response.body.stats.averageMatch = 0
        /\ response.body.topMissingSkills = <<>>
        /\ response.body.departmentStats = <<>>
        /\ response.body.academicYearStats = <<>>
        /\ response.body.companyStats = <<>>
        /\ response.body.trendingSkills = <<>>
        /\ response.body.recentActivity = <<>>
        /\ response.body.alerts = <<>>
        /\ response.body.skillPriorityBreakdown
              = [critical |-> <<>>, important |-> <<>>, optional |-> <<>>]
        /\ response.body.matchDistribution
              = [high |-> 0, medium |-> 0, low |-> 0, veryLow |-> 0]

\* The dashboard was read without a filter while the store was empty
C4_Witness ==
    /\ Answered("analytics") /\ NoFilter(response.query)
    /\ skill_gaps = <<>> /\ DOMAIN skill_analytics = {} /\ DOMAIN trends = {}
    /\ genAI /\ modelReady

\* The largest cumulative count of a skill over all departments
CumulativeCount(skill) ==
    SumRows(skill_analytics, {k \in DOMAIN skill_analytics : k[1] = skill})

TopCount ==
    IF DOMAIN skill_analytics = {} THEN 0
    ELSE CHOOSE c \in {CumulativeCount(k[1]) : k \in DOMAIN skill_analytics} :
            \A k \in DOMAIN skill_analytics : CumulativeCount(k[1]) <= c

\* C6: a call of the dashboard emits the critical alert exactly when the
\* largest cumulative count of a skill is greater than 5, and emits it once.
C6_CriticalAlertIffTopCountAbove5 ==
    [][\A req \in AggQueries :
         Analytics(req) =>
            LET critical == SelectSeq(response'.body.alerts,
                                      LAMBDA a : a.severity = "critical")
            IN  /\ Len(critical) = (IF TopCount > 5 THEN 1 ELSE 0)
                /\ TopCount > 5 => critical[1].count = TopCount
      ]_vars

\* The dashboard was read with the top skill counted 6 times and shows the alert
C6_Witness ==
    /\ Answered("analytics")
    /\ response.body.topMissingSkills # <<>>
    /\ response.body.topMissingSkills[1].count = 6
    /\ "critical" \in Range(Severities(response.body.alerts))

\* The dashboard was read with the top skill counted 5 times and shows no such alert
C6_BoundaryBelow ==
    /\ Answered("analytics")
    /\ response.body.topMissingSkills # <<>>
    /\ response.body.topMissingSkills[1].count = 5
    /\ "critical" \notin Range(Severities(response.body.alerts))

\* The band of a score
Band(score) ==
    IF score >= 80 THEN "high"
    ELSE IF score >= 60 THEN "medium"
    ELSE IF score >= 40 THEN "low"
    ELSE "veryLow"

\* C7: each band of matchDistribution counts the records that match the
\* filter and whose score lies in the band: 80 and above high, 60 to 79
\* medium, 40 to 59 low, below 40 veryLow.
C7_DistributionBands ==
    [][\A req \in AggQueries :
         Analytics(req) =>
            \A band \in {"high", "medium", "low", "veryLow"} :
               response'.body.matchDistribution[band]
                  = Cardinality({n \in 1..Len(skill_gaps) :
                                    /\ Matches(skill_gaps[n], req)
                                    /\ Band(skill_gaps[n].match_percentage) = band})
      ]_vars

\* The dashboard was read over records scored 80, 79 and 59
C7_Witness ==
    /\ Answered("analytics") /\ NoFilter(response.query)
    /\ {skill_gaps[n].match_percentage : n \in 1..Len(skill_gaps)} = {80, 79, 59}
    /\ response.body.matchDistribution
          = [high |-> 1, medium |-> 1, low |-> 1, veryLow |-> 0]

\* A reader of comma-separated values (RFC 4180).  A character lies inside
\* quotes when an odd number of quotes precedes it; a line feed outside quotes
\* ends a row, a comma outside quotes ends a field; a field in quotes reads as
\* its content with every doubled quote taken as one quote.
Outside(text, i) == Cardinality({k \in 1..(i - 1) : text[k] = Quote}) % 2 = 0

\* The pieces of text[from..to] between the separators at the positions `cuts`
Pieces(text, from, to, cuts) ==
    LET nth(k)   == CHOOSE p \in cuts : Cardinality({q \in cuts : q < p}) = k - 1
        start(k) == IF k = 1 THEN from ELSE nth(k - 1) + 1
        end(k)   == IF k = Cardinality(cuts) + 1 THEN to ELSE nth(k) - 1
    IN  [k \in 1..(Cardinality(cuts) + 1) |->
            [from |-> start(k), to |-> end(k)]]

RECURSIVE Undouble(_)
Undouble(text) ==
    IF text = <<>> THEN <<>>
    ELSE IF Head(text) = Quote /\ Len(text) > 1 /\ text[2] = Quote
    THEN <<Quote>> \o Undouble(SubSeq(text, 3, Len(text)))
    ELSE <<Head(text)>> \o Undouble(Tail(text))

FieldValue(raw) ==
    IF Len(raw) >= 2 /\ raw[1] = Quote /\ raw[Len(raw)] = Quote
    THEN Undouble(SubSeq(raw, 2, Len(raw) - 1))
    ELSE raw

ParseCSV(text) ==
    IF text = <<>> THEN <<>>
    ELSE LET lines == Pieces(text, 1, Len(text),
                             {i \in 1..Len(text) : text[i] = "\n" /\ Outside(text, i)})
         IN  [l \in 1..Len(lines) |->
                LET fields == Pieces(text, lines[l].from, lines[l].to,
                                     {i \in lines[l].from..lines[l].to :
                                         text[i] = "," /\ Outside(text, i)})
                IN  [f \in 1..Len(fields) |->
                        FieldValue(SubSeq(text, fields[f].from, fields[f].to))]]

\* C8: the CSV export of the N records that match the filter parses into a
\* header line and N rows, and every string column of every row reads as the
\* stored value; an export of no record is empty.
C8_CSVRoundTrip ==
    [][\A req \in ExportQueries :
         (Export(req) /\ req.format = "csv") =>
            LET data   == ExportData(skill_gaps, req)
                parsed == ParseCSV(response'.csv)
            IN  IF data = <<>> THEN parsed = <<>>
                ELSE /\ Len(parsed) = Len(data) + 1
                     /\ \A j \in 1..Len(data) :
                           /\ Len(parsed[j + 1]) = Len(ExportColumns)
                           /\ \A c \in 1..Len(ExportColumns) :
                                 data[j][c].type = "string"
                                    => parsed[j + 1][c] = data[j][c].text
      ]_vars

\* Two records were exported, one of them with quotes and a comma in its name
C8_Witness ==
    /\ Answered("export") /\ "csv" \in DOMAIN response
    /\ Len(ParseCSV(response.csv)) = 3
    /\ \E j \in 2..3 : Quote \in Range(ParseCSV(response.csv)[j][1])

\* C5 as stated: a call of the dashboard that follows a call with the same
\* filter, no handler having run between them, returns the same snapshot.
C5_RepeatedCallSameSnapshot ==
    [][\A req \in AggQueries :
         (Analytics(req) /\ Answered("analytics") /\ response.query = req)
            => response'.body = response.body
      ]_vars

\* C5: a call of the dashboard that follows a call with the same filter, no
\* handler having run between them, returns the same snapshot when both calls
\* are made in the same week of the same calendar year.
C5_RepeatedCallSameSnapshotInOneWeek ==
    [][\A req \in AggQueries :
         ( /\ Analytics(req) /\ Answered("analytics") /\ response.query = req
           /\ getWeekNumber(response.at) = getWeekNumber(now)
           /\ getFullYear(response.at) = getFullYear(now) )
            => response'.body = response.body
      ]_vars

\* The dashboard was read twice in a row, on two days of one week, over a
\* store that raises an alert
C5_Witness ==
    /\ Answered("analytics") /\ response.again
    /\ response.at = DateUTC(2025, 1, 3)
    /\ \E n \in 1..Len(skill_gaps) : skill_gaps[n].timestamp = DateUTC(2025, 1, 2)
    /\ response.body.alerts # <<>>
    /\ response.body.trendingSkills # <<>>

(***************************************************************************)
(* Properties of the error paths.                                          *)
(***************************************************************************)
\* C11: when the AI call of a request fails (it throws, or its reply does not
\* parse or lacks a required field), and when a request finds the AI client or
\* model not configured, the request is answered with an error response and
\* skill_gaps, skill_analytics and trends are left as they were.
C11_FailedAICallStoresNothing ==
    [][ /\ \A i \in 1..Len(pending) :
             GeminiFails(i) =>
                /\ store' = store
                /\ response'.op = "analyze" /\ response'.status >= 400
                /\ "error" \in DOMAIN response'
        /\ \A req \in Requests :
             ( /\ AnalyzeRequest(req)
               /\ req.resumeText # "" /\ req.jobDescription # ""
               /\ authenticateToken("analyze", req.token) = NoResponse
               /\ ~(genAI /\ modelReady) ) =>
                /\ store' = store /\ pending' = pending
                /\ response'.op = "analyze" /\ response'.status >= 400
                /\ "error" \in DOMAIN response'
      ]_vars

\* The AI call of a request failed after an earlier request had been recorded
C11_Witness ==
    /\ response.op = "analyze" /\ response.status = 500
    /\ "Gemini API Error" \in Range(logs)
    /\ skill_gaps # <<>> /\ DOMAIN skill_analytics # {} /\ DOMAIN trends # {}

\* Requests that lack a field or a valid token, and dashboard calls by an
\* administrator, by a student and without a token
ErrorRequests ==
    Requests \cup
    { Body("student", "", "titled", <<"Ann">>, "CS", "2025", ""),
      Body("student", "cvA", "", <<"Ann">>, "CS", "2025", ""),
      Body("none", "", "", <<>>, "", "", ""),
      Body("invalid", "cvA", "titled", <<"Ann">>, "CS", "2025", "") }

ErrorQueries ==
    {Query("admin", "", ""), Query("student", "", ""), Query("none", "", ""),
     Query("invalid", "", "")}

NextErrors ==
    \/ InitializeGeminiModel
    \/ \E req \in ErrorRequests :
          /\ Len(skill_gaps) + Len(pending) < MaxRecords
          /\ Len(pending) < MaxPending
          /\ AnalyzeRequest(req)
    \/ \E i \in 1..Len(pending) : GeminiFails(i)
    \/ \E i \in 1..Len(pending) :
          \E analysis \in GeminiAnswers(pending[i].resumeText) :
             GeminiReplies(i, analysis, FALSE, FALSE, {}, {})
    \/ \E req \in ErrorQueries : Analytics(req)
    \/ \E req \in ErrorQueries : AnalyticsFails(req)

SpecErrors == Init /\ [][NextErrors]_vars

\* C12: when a statement of the dashboard's handler throws, an administrator
\* is answered with status 200 and a snapshot whose stats are all 0, whose
\* lists are all empty and whose matchDistribution is four zeros.
C12_FailedAggregationGivesZeroSnapshot ==
    [][\A req \in ErrorQueries :
         (AnalyticsFails(req) /\ req.token = "admin") =>
            /\ response'.op = "analytics" /\ response'.status = 200
            /\ "error" \notin DOMAIN response'
            /\ \A f \in DOMAIN response'.body.stats : response'.body.stats[f] = 0
            /\ \A f \in DOMAIN response'.body \ {"stats", "matchDistribution"} :
                  response'.body[f] = <<>>
            /\ response'.body.matchDistribution
                  = [high |-> 0, medium |-> 0, low |-> 0, veryLow |-> 0]
      ]_vars

\* The handler failed over a store that holds records and counters
C12_Witness ==
    /\ Answered("analytics") /\ "Analytics error" \in Range(logs)
    /\ response.body.stats.totalStudents = 0
    /\ skill_gaps # <<>> /\ DOMAIN skill_analytics # {}

\* C13: a request without resume text or without job description leaves the
\* tables as they were and is not handed to the AI; when its token is valid it
\* is answered 400 with the message that both are required.
C13_MissingFieldIsRejectedBeforeAnyWrite ==
    [][\A req \in ErrorRequests :
         (AnalyzeRequest(req) /\ (req.resumeText = "" \/ req.jobDescription = "")) =>
            /\ store' = store
            /\ pending' = pending
            /\ response'.op = "analyze" /\ response'.status >= 400
            /\ authenticateToken("analyze", req.token) = NoResponse =>
                  response' = ErrorResponse("analyze", 400,
                                            "Resume text and job description are required")
      ]_vars

\* A request without a required field was rejected while the AI was ready
\* and an earlier request had been recorded
C13_Witness ==
    /\ response.op = "analyze" /\ response.status = 400
    /\ genAI /\ modelReady /\ pending = <<>>
    /\ skill_gaps # <<>>

(***************************************************************************)
(* Properties of what the dashboard discloses.                             *)
(***************************************************************************)
\* The records with every student_name replaced by `name`
Renamed(rows, name) == [i \in 1..Len(rows) |-> [rows[i] EXCEPT !.student_name = name]]

\* C14: the snapshot sent to an administrator does not depend on the student
\* names of the records: over a store that differs from the present one only
\* in the student_name column, the same call returns the same snapshot.
C14_SnapshotIndependentOfStudentNames ==
    [][\A req \in AggQueries :
         Analytics(req) =>
            \A name \in {<<"Ann">>, <<"Zed">>} :
               Snapshot(Renamed(skill_gaps, name), skill_analytics, trends, req, now)
                  = response'.body
      ]_vars

(***************************************************************************)
(* Invariants of the store.  The AI is asked for a matchPercentage between *)
(* 0 and 100; the reply is taken as it comes.                              *)
(***************************************************************************)
ScoreRequests ==
    { Body("student", "cvA", "titled", <<"Ann">>, "CS", "2025", ""),
      Body("student", "cvE", "plain", <<>>, "EE", "", "") }

NextScores ==
    \/ InitializeGeminiModel
    \/ \E req \in ScoreRequests :
          /\ Len(skill_gaps) + Len(pending) < MaxRecords
          /\ Len(pending) < MaxPending
          /\ AnalyzeRequest(req)
    \/ \E i \in 1..Len(pending) : GeminiFails(i)
    \/ \E i \in 1..Len(pending) :
          \E analysis \in GeminiAnswers(pending[i].resumeText) :
             GeminiReplies(i, analysis, FALSE, FALSE, {}, {})
    \/ \E day \in Days : Tick(day)

SpecScores == Init /\ [][NextScores]_vars

\* C15: every row of skill_gaps has a match_percentage from 0 to 100.
C15_MatchScoreWithin0And100 ==
    \A n \in 1..Len(skill_gaps) :
       skill_gaps[n].match_percentage >= 0 /\ skill_gaps[n].match_percentage <= 100

\* C16: no step removes a row of skill_analytics or of trends, and no step
\* lowers a counter: a row that exists with count c exists with a count of at
\* least c after every step, hence in every later state.
C16_CountersNeverDecrease ==
    [][ /\ \A k \in DOMAIN skill_analytics :
             k \in DOMAIN skill_analytics' /\ skill_analytics'[k] >= skill_analytics[k]
        /\ \A k \in DOMAIN trends :
             k \in DOMAIN trends' /\ trends'[k] >= trends[k]
      ]_vars

\* A counter was raised twice, and trend rows of two years stand side by side
C16_Witness ==
    /\ \E k \in DOMAIN skill_analytics : skill_analytics[k] >= 2
    /\ \E k, l \in DOMAIN trends : k[3] < l[3]

(***************************************************************************)
(* Properties of the alerts.                                               *)
(***************************************************************************)
Alerts(body, severity, action) ==
    SelectSeq(body.alerts, LAMBDA a : a.severity = severity /\ a.action = action)

\* C17: a critical alert of the dashboard has the name of the first skill of
\* topMissingSkills in its title, that skill's cumulative count as its count,
\* and an action.
C17_CriticalAlertNamesTopSkill ==
    [][\A req \in AggQueries :
         Analytics(req) =>
            \A n \in 1..Len(response'.body.alerts) :
               LET alert == response'.body.alerts[n]
               IN  alert.severity = "critical" =>
                      /\ response'.body.topMissingSkills # <<>>
                      /\ response'.body.topMissingSkills[1].skill \in Range(alert.title)
                      /\ alert.count = CumulativeCount(response'.body.topMissingSkills[1].skill)
                      /\ alert.count = TopCount
                      /\ alert.action # ""
      ]_vars

\* C18: when trendingSkills is not empty the dashboard carries exactly one
\* trending alert, a warning whose title holds the name of the first trending
\* skill and whose count is that skill's total; when trendingSkills is empty
\* it carries none.
C18_OneTrendingAlertForTopTrend ==
    [][\A req \in AggQueries :
         Analytics(req) =>
            LET trending == response'.body.trendingSkills
                alerts   == Alerts(response'.body, "warning", "Add to Curriculum")
            IN  IF trending = <<>> THEN alerts = <<>>
                ELSE /\ Len(alerts) = 1
                     /\ trending[1].skill \in Range(alerts[1].title)
                     /\ alerts[1].count = trending[1].total
      ]_vars

\* The readiness runs: up to five records of one department scored 70 or 50,
\* read without a filter and with the filter of a department that has none
ReadinessRequests == { Body("student", "cvF", "plain", <<>>, "EE", "2026", "") }

ReadinessQueries == {Query("admin", "", ""), Query("admin", "CS", "")}

NextReadiness ==
    \/ InitializeGeminiModel
    \/ \E req \in ReadinessRequests :
          /\ Len(skill_gaps) + Len(pending) < MaxReadinessRecords
          /\ Len(pending) < MaxPending
          /\ AnalyzeRequest(req)
    \/ \E i \in 1..Len(pending) :
          \E analysis \in GeminiAnswers(pending[i].resumeText) :
             GeminiReplies(i, analysis, FALSE, FALSE, {}, {})
    \/ \E req \in ReadinessQueries : Analytics(req)

SpecReadiness == Init /\ [][NextReadiness]_vars

\* C19: a call of the dashboard is answered with a snapshot that carries the
\* readiness warning exactly when the four bands of its distribution sum to
\* more than 0 and low + veryLow is more than 40% of that sum; with a sum of 0
\* the call is answered all the same, without the warning.
C19_ReadinessAlertIffLowShareAbove40 ==
    [][\A req \in ReadinessQueries :
         Analytics(req) =>
            LET d      == response'.body.matchDistribution
                total  == d.high + d.medium + d.low + d.veryLow
                alerts == Alerts(response'.body, "warning", "Review Curriculum")
            IN  /\ response'.status = 200
                /\ Len(alerts) = (IF total > 0 /\ (d.low + d.veryLow) * 100 > 40 * total
                                  THEN 1 ELSE 0)
      ]_vars

\* The dashboard was read over five records of which exactly two score below
\* 60, and shows no readiness warning
C19_Witness ==
    /\ Answered("analytics") /\ NoFilter(response.query)
    /\ response.body.matchDistribution
          = [high |-> 0, medium |-> 3, low |-> 2, veryLow |-> 0]
    /\ Alerts(response.body, "warning", "Review Curriculum") = <<>>

\* The dashboard was read over five records of which three score below 60,
\* and shows the readiness warning
C19_AboveThreshold ==
    /\ Answered("analytics") /\ NoFilter(response.query)
    /\ response.body.matchDistribution
          = [high |-> 0, medium |-> 2, low |-> 3, veryLow |-> 0]
    /\ Len(Alerts(response.body, "warning", "Review Curriculum")) = 1

\* The dashboard was read with a filter that no record of the store matches
C19_EmptySelection ==
    /\ Answered("analytics") /\ response.query.department = "CS"
    /\ skill_gaps # <<>>
    /\ response.body.matchDistribution
          = [high |-> 0, medium |-> 0, low |-> 0, veryLow |-> 0]
    /\ response.body.alerts = <<>>

(***************************************************************************)
(* The trending runs: a clock that starts on the Monday of ISO week 48 of  *)
(* 2024 and passes to the Tuesday and the Thursday of ISO week 1 of 2025.  *)
(***************************************************************************)
InitTrending ==
    /\ now = DateUTC(2024, 11, 25)
    /\ genAI \in BOOLEAN
    /\ modelReady = FALSE
    /\ pending = <<>>
    /\ skill_gaps = <<>>
    /\ skill_analytics = EmptyTable
    /\ trends = EmptyTable
    /\ response = NoResponse
    /\ logs = <<>>
    /\ canvas = [slot \in Slots |-> TRUE]
    /\ charts = [slot \in Slots |-> "none"]
    /\ live = [slot \in Slots |-> 0]
    /\ dashboard = NotLoaded

TrendingDays == {DateUTC(2024, 12, 31), DateUTC(2025, 1, 2)}

TrendingQueries == {Query("admin", "", "")}

NextTrending ==
    \/ InitializeGeminiModel
    \/ \E req \in Requests :
          /\ Len(skill_gaps) + Len(pending) < MaxRecords
          /\ Len(pending) < MaxPending
          /\ AnalyzeRequest(req)
    \/ \E i \in 1..Len(pending) :
          \E analysis \in GeminiAnswers(pending[i].resumeText) :
             GeminiReplies(i, analysis, FALSE, FALSE, {}, {})
    \/ \E req \in TrendingQueries : Analytics(req)
    \/ \E day \in TrendingDays : Tick(day)

SpecTrending == InitTrending /\ [][NextTrending]_vars

\* A day lies in the window of `date`: in the ISO week of `date` or in one of
\* the 3 ISO weeks before it, not further back than week 1 of that ISO year
InWindow(day, date) ==
    /\ ISOYear(day) = ISOYear(date)
    /\ getWeekNumber(day) <= getWeekNumber(date)
    /\ getWeekNumber(day) >= getWeekNumber(date) - 3
    /\ getWeekNumber(day) >= 1

\* How often a skill was reported missing by the submissions recorded in the window
WindowTotal(rows, skill, date) ==
    SumSeq([n \in 1..Len(rows) |->
               IF InWindow(rows[n].timestamp, date)
               THEN Occurrences(JSONparse(rows[n].missing_skills), skill, {})
               ELSE 0])

\* The total a list of trending skills gives for a skill, 0 when it is not listed
ListedTotal(trending, skill) ==
    SumSeq([n \in 1..Len(trending) |->
               IF trending[n].skill = skill THEN trending[n].total ELSE 0])

\* C20: with every counter statement having succeeded, the trendingSkills of
\* a call list each skill with the number of times it was reported missing by
\* the submissions recorded in the current ISO week and the 3 before it (not
\* before week 1), submissions of other weeks adding nothing; the list is in
\* descending order of total and has at most 10 entries.
C20_TrendingSumsLastFourWeeks ==
    [][\A req \in TrendingQueries :
         Analytics(req) =>
            LET trending == response'.body.trendingSkills
            IN  /\ \A skill \in Skills :
                      ListedTotal(trending, skill) = WindowTotal(skill_gaps, skill, now)
                /\ \A n \in 1..Len(trending) :
                      /\ trending[n].total > 0
                      /\ n > 1 => trending[n - 1].total >= trending[n].total
                /\ Len(trending) <= TrendingLimit
      ]_vars

(***************************************************************************)
(* Properties of the filter.                                               *)
(***************************************************************************)
\* The positions of the records a query selects
Selected(query) == {n \in 1..Len(skill_gaps) : Matches(skill_gaps[n], query)}

\* The positions of the records with a value in a column
Having(column, value) == {n \in 1..Len(skill_gaps) : skill_gaps[n][column] = value}

\* C21: whatever the filter of a call, departmentStats, academicYearStats and
\* companyStats count all the records of the store, group by group, and are
\* what the call returns for every other filter, while totalStudents,
\* averageMatch, matchDistribution and recentActivity cover the records that
\* match the filter and no other.
C21_GroupingsIgnoreTheFilter ==
    [][\A req \in AggQueries :
         Analytics(req) =>
            LET body == response'.body
                sel  == Selected(req)
                sum  == SumRows([n \in sel |-> skill_gaps[n].match_percentage], sel)
            IN  /\ \A other \in AggQueries :
                      LET s == Snapshot(skill_gaps, skill_analytics, trends, other, now)
                      IN  /\ s.departmentStats = body.departmentStats
                          /\ s.academicYearStats = body.academicYearStats
                          /\ s.companyStats = body.companyStats
                /\ {<<g.department, g.count>> : g \in Range(body.departmentStats)}
                      = {<<skill_gaps[n].department,
                           Cardinality(Having("department", skill_gaps[n].department))>> :
                           n \in 1..Len(skill_gaps)}
                /\ {<<g.year, g.count>> : g \in Range(body.academicYearStats)}
                      = {<<skill_gaps[n].academic_year,
                           Cardinality(Having("academic_year", skill_gaps[n].academic_year))>> :
                           n \in 1..Len(skill_gaps)}
                /\ {<<g.company, g.studentCount>> : g \in Range(body.companyStats)}
                      = {<<skill_gaps[n].company_name,
                           Cardinality(Having("company_name", skill_gaps[n].company_name))>> :
                           n \in 1..Len(skill_gaps)}
                /\ body.stats.totalStudents
                      = Cardinality({skill_gaps[n].student_id : n \in sel})
                /\ IF sel = {} THEN body.stats.averageMatch = 0
                   ELSE /\ 2 * sum >= (2 * body.stats.averageMatch - 1) * Cardinality(sel)
                        /\ 2 * sum < (2 * body.stats.averageMatch + 1) * Cardinality(sel)
                /\ body.matchDistribution.high + body.matchDistribution.medium
                      + body.matchDistribution.low + body.matchDistribution.veryLow
                      = Cardinality(sel)
                /\ {a.id : a \in Range(body.recentActivity)} = sel
      ]_vars

\* The dashboard was read with the filter of one department over a store
\* that holds records of two
C21_Witness ==
    /\ Answered("analytics") /\ response.query.department = "CS"
    /\ Len(response.body.departmentStats) = 2
    /\ response.body.stats.totalStudents > 0
    /\ response.body.stats.totalStudents < Len(skill_gaps)

(***************************************************************************)
(* Properties of a failed primary insert and of concurrent requests.       *)
(***************************************************************************)
\* C22: a request whose INSERT INTO skill_gaps throws leaves skill_gaps,
\* skill_analytics and trends as they were: no counter row is created and none
\* is raised.
C22_FailedInsertCommitsNothing ==
    [][\A i \in 1..Len(pending) :
         \A analysis \in GeminiAnswers(pending[i].resumeText), f \in Failures :
            ( /\ GeminiReplies(i, analysis, FALSE, f.insertFails, f.failSA, f.failTR)
              /\ f.insertFails ) =>
               /\ skill_gaps' = skill_gaps
               /\ skill_analytics' = skill_analytics
               /\ trends' = trends
      ]_vars

\* The insert of a request failed after an earlier request had been recorded
\* and counted
C22_Witness ==
    /\ response.op = "analyze" /\ "Database storage error" \in Range(logs)
    /\ Len(skill_gaps) = 1
    /\ DOMAIN skill_analytics # {} /\ DOMAIN trends # {}

\* The concurrent runs: requests of one department wait for the AI together
\* and their replies arrive in any order.  better-sqlite3 is synchronous, so
\* the part of the handler after the await runs from its first statement to
\* its last without another handler in between.
ConcurrentRequests ==
    { Body("student", "cvA", "titled", <<"Ann">>, "CS", "2025", ""),
      Body("student", "cvB", "plain", <<"Bob">>, "CS", "2025", "") }

NextConcurrent ==
    \/ InitializeGeminiModel
    \/ \E req \in ConcurrentRequests :
          /\ Len(skill_gaps) + Len(pending) < MaxConcurrentRecords
          /\ Len(pending) < MaxConcurrent
          /\ AnalyzeRequest(req)
    \/ \E i \in 1..Len(pending) : GeminiFails(i)
    \/ \E i \in 1..Len(pending) :
          \E analysis \in GeminiAnswers(pending[i].resumeText) :
             GeminiReplies(i, analysis, FALSE, FALSE, {}, {})

SpecConcurrent == Init /\ [][NextConcurrent]_vars

\* How often a skill stands in the missing-skill lists of the records of a department
Reported(skill, department) ==
    SumSeq([n \in 1..Len(skill_gaps) |->
               IF skill_gaps[n].department = department
               THEN Occurrences(JSONparse(skill_gaps[n].missing_skills), skill, {})
               ELSE 0])

\* C23: whatever the order in which concurrent requests are accepted and
\* answered, the skill_analytics counter of (skill, department) is the number
\* of times the skill was reported for the department by the requests
\* completed so far, each entry of a missing-skill list being one report; the
\* table holds one counter per (skill, department).
C23_NoIncrementLost ==
    \A skill \in Skills, department \in Range(DepartmentNames) :
       Count(skill_analytics, <<skill, department>>) = Reported(skill, department)

\* Two requests that report sql for one department waited together and have
\* both completed
C23_Witness ==
    /\ pending = <<>> /\ Len(skill_gaps) = 2
    /\ skill_gaps[1].student_name # skill_gaps[2].student_name
    /\ Count(skill_analytics, <<"sql", "CS">>) >= 2

\* Two requests wait for the AI at once
C23_Overlap == Len(pending) = 2

(***************************************************************************)
(* The legacy runs: the database file opened at start already holds a      *)
(* record whose skill_priority text is not JSON.                           *)
(***************************************************************************)
LegacyRow ==
    [student_id       |-> [name |-> <<"LEGACY">>, ms |-> 0],
     student_name     |-> <<"Lee">>,
     department       |-> "CS",
     academic_year    |-> "2025",
     job_role         |-> <<"backend developer">>,
     company_name     |-> "Unknown",
     match_percentage |-> 55,
     missing_skills   |-> JSONstringify(<<>>),
     matched_skills   |-> JSONstringify(<<>>),
     skill_priority   |-> [unparsable |-> <<"{", "critical", ":", "[", "go">>],
     timestamp        |-> DateUTC(2024, 12, 28)]

InitLegacy ==
    /\ now = DateUTC(2024, 12, 29)
    /\ genAI \in BOOLEAN
    /\ modelReady = FALSE
    /\ pending = <<>>
    /\ skill_gaps = <<LegacyRow>>
    /\ skill_analytics = EmptyTable
    /\ trends = EmptyTable
    /\ response = NoResponse
    /\ logs = <<>>
    /\ canvas = [slot \in Slots |-> TRUE]
    /\ charts = [slot \in Slots |-> "none"]
    /\ live = [slot \in Slots |-> 0]
    /\ dashboard = NotLoaded

NextLegacy ==
    \/ InitializeGeminiModel
    \/ \E req \in AggRequests :
          /\ Len(skill_gaps) + Len(pending) < MaxAggRecords
          /\ Len(pending) < MaxPending
          /\ AnalyzeRequest(req)
    \/ \E i \in 1..Len(pending) :
          \E analysis \in GeminiAnswers(pending[i].resumeText) :
             GeminiReplies(i, analysis, FALSE, FALSE, {}, {})
    \/ \E req \in AggQueries : Analytics(req)

SpecLegacy == InitLegacy /\ [][NextLegacy]_vars

\* The skills the well-formed records a query selects name in a tier
TierSkills(query, tier) ==
    UNION {Range(skill_gaps[n].skill_priority[tier]) :
             n \in {m \in Selected(query) : tier \in DOMAIN skill_gaps[m].skill_priority}}

\* C24: a call of the dashboard over a store with a record whose
\* skill_priority text does not parse is answered with a snapshot, and each
\* list of its skillPriorityBreakdown holds, once each, the skills that the
\* other records matching the filter name in that tier.
C24_MalformedPriorityIsSkipped ==
    [][\A req \in AggQueries :
         Analytics(req) =>
            /\ response'.op = "analytics" /\ response'.status = 200
            /\ \A tier \in {"critical", "important", "optional"} :
                  LET list == response'.body.skillPriorityBreakdown[tier]
                  IN  /\ Range(list) = TierSkills(req, tier)
                      /\ Len(list) = Cardinality(Range(list))
      ]_vars

\* The dashboard was read over the legacy record and two later records that
\* match the filter, and lists the critical skills of the two
C24_Witness ==
    /\ Answered("analytics") /\ response.query.department = "CS"
    /\ Len(skill_gaps) = 3
    /\ \A n \in 1..Len(skill_gaps) : skill_gaps[n].department = "CS"
    /\ "unparsable" \in DOMAIN skill_gaps[1].skill_priority
    /\ Range(response.body.skillPriorityBreakdown.critical) = {"sql", "go"}

(***************************************************************************)
(* The recent-activity runs: the database file opened at start holds the   *)
(* records of earlier submissions, and a few more arrive.                  *)
(***************************************************************************)
\* The store after n submissions of one student on 2024-12-28
RECURSIVE StoreAfter(_)
StoreAfter(n) ==
    IF n = 0 THEN <<<<>>, EmptyTable, EmptyTable>>
    ELSE storeToDatabase(StoreAfter(n - 1),
                         [student_id       |-> generateStudentId(<<"Ann">>, n),
                          student_name     |-> <<"Ann">>,
                          department       |-> "CS",
                          academic_year    |-> "2025",
                          job_role         |-> extractJobRole("plain"),
                          company_name     |-> extractCompanyName("plain"),
                          match_percentage |-> 70,
                          missing_skills   |-> <<"sql">>,
                          matched_skills   |-> <<"js">>,
                          skill_priority   |-> [critical |-> <<"sql">>, important |-> <<>>,
                                                optional |-> <<>>]],
                         DateUTC(2024, 12, 28), FALSE, {}, {}).db

InitRecent ==
    /\ now = DateUTC(2024, 12, 29)
    /\ genAI \in BOOLEAN
    /\ modelReady = FALSE
    /\ pending = <<>>
    /\ skill_gaps = StoreAfter(StoredBefore)[1]
    /\ skill_analytics = StoreAfter(StoredBefore)[2]
    /\ trends = StoreAfter(StoredBefore)[3]
    /\ response = NoResponse
    /\ logs = <<>>
    /\ canvas = [slot \in Slots |-> TRUE]
    /\ charts = [slot \in Slots |-> "none"]
    /\ live = [slot \in Slots |-> 0]
    /\ dashboard = NotLoaded

RecentRequests ==
    { Body("student", "cvG", "plain", <<"Bob">>, "CS", "2025", ""),
      Body("student", "cvG", "plain", <<"Eve">>, "EE", "2026", "") }

RecentQueries == {Query("admin", "", ""), Query("admin", "CS", ""), Query("admin", "EE", "")}

RecentDays == {DateUTC(2024, 12, 30)}

NextRecent ==
    \/ InitializeGeminiModel
    \/ \E req \in RecentRequests :
          /\ Len(skill_gaps) + Len(pending) < StoredBefore + MaxNewRecords
          /\ Len(pending) < MaxPending
          /\ AnalyzeRequest(req)
    \/ \E i \in 1..Len(pending) :
          \E analysis \in GeminiAnswers(pending[i].resumeText) :
             GeminiReplies(i, analysis, FALSE, FALSE, {}, {})
    \/ \E req \in RecentQueries : Analytics(req)
    \/ \E day \in RecentDays : Tick(day)

SpecRecent == InitRecent /\ [][NextRecent]_vars

C26_AggregationWritesNothing ==
    [][\A req \in AggQueries :
         Analytics(req) =>
            /\ store' = store
            /\ pending' = pending
            /\ response'.body.alerts
                  = Snapshot(skill_gaps, skill_analytics, trends, req, now).alerts
            /\ Len(response'.body.alerts) <= 3
      ]_vars

\* The dashboard was read twice in a row over a store that raises three alerts
C26_Witness ==
    /\ Answered("analytics") /\ response.again
    /\ Len(response.body.alerts) = 3
    /\ Len(skill_gaps) = 3

\* C27: a call of GET /api/analytics, whether its queries succeed or throw, is
\* answered 401 without a token, 403 with a token that does not verify or
\* that carries another role than admin, and in these cases carries no
\* snapshot; a snapshot is sent with status 200 to an admin token only.
C27_AnalyticsOnlyForAdmins ==
    [][\A req \in ErrorQueries :
         (Analytics(req) \/ AnalyticsFails(req)) =>
            /\ response'.op = "analytics"
            /\ response'.status = (CASE req.token = "none"  -> 401
                                     [] req.token = "admin" -> 200
                                     [] OTHER               -> 403)
            /\ ("body" \in DOMAIN response') = (req.token = "admin")
            /\ ("error" \in DOMAIN response') = (req.token # "admin")
      ]_vars

\* A student's call of the dashboard over a store with records was refused
C27_Witness ==
    /\ response = ErrorResponse("analytics", 403, "Access denied. Admin privileges required.")
    /\ skill_gaps # <<>>

\* A call with a token that does not verify was refused
C27_InvalidToken ==
    /\ response = ErrorResponse("analytics", 403, "Invalid or expired token")
    /\ skill_gaps # <<>>

\* A call without a token was refused
C27_NoToken ==
    /\ response = ErrorResponse("analytics", 401, "Access denied. No token provided.")
    /\ skill_gaps # <<>>

(***************************************************************************)
(* The band runs: beside whole-number scores, the AI answers one request   *)
(* with a matchPercentage that is a text and no number ("high"), which the *)
(* validation lets pass and the INSERT stores.                             *)
(***************************************************************************)
BandRequests ==
    { Body("student", "cvC", "titled", <<"Ann">>, "CS", "2025", ""),
      Body("student", "cvH", "plain", <<"Bob">>, "EE", "2026", "") }

NextBands ==
    \/ InitializeGeminiModel
    \/ \E req \in BandRequests :
          /\ Len(skill_gaps) + Len(pending) < MaxRecords
          /\ Len(pending) < MaxPending
          /\ AnalyzeRequest(req)
    \/ \E i \in 1..Len(pending) :
          \E analysis \in GeminiAnswers(pending[i].resumeText) :
             GeminiReplies(i, analysis, FALSE, FALSE, {}, {})
    \/ \E req \in AggQueries : Analytics(req)

SpecBands == Init /\ [][NextBands]_vars

\* C28: in the snapshot of every call, the four bands of matchDistribution
\* add up to the number of records that match the filter.
C28_BandsPartitionTheSelection ==
    [][\A req \in AggQueries :
         Analytics(req) =>
            response'.body.matchDistribution.high + response'.body.matchDistribution.medium
               + response'.body.matchDistribution.low + response'.body.matchDistribution.veryLow
               = Cardinality(Selected(req))
      ]_vars

(***************************************************************************)
(* Properties of the start of the server.                                  *)
(***************************************************************************)
\* C29: a request handled while modelReady is false is answered with an error
\* response, is not handed to the AI and leaves the tables as they were; as
\* long as modelReady is false no request waits for the AI and no record is
\* stored.
C29_NoAnalysisBeforeModelReady ==
    [][ /\ \A req \in ErrorRequests :
             (AnalyzeRequest(req) /\ ~modelReady) =>
                /\ pending' = pending
                /\ store' = store
                /\ response'.op = "analyze" /\ response'.status >= 400
                /\ "error" \in DOMAIN response' /\ "body" \notin DOMAIN response'
        /\ ~modelReady' => (pending' = <<>> /\ store' = store)
      ]_vars

\* A complete request arrived after the client was constructed and before
\* initializeGeminiModel had set modelReady, and was refused
C29_Witness ==
    /\ genAI /\ ~modelReady
    /\ response = ErrorResponse("analyze", 500, "Analysis failed")
    /\ logs = <<"Error in analysis">>
    /\ pending = <<>> /\ skill_gaps = <<>>

(***************************************************************************)
(* The dashboard runs: the admin page is loaded and its filters applied    *)
(* while submissions are recorded.                                         *)
(***************************************************************************)
NextDashboard ==
    \/ InitializeGeminiModel
    \/ \E req \in Requests :
          /\ Len(skill_gaps) + Len(pending) < MaxRecords
          /\ Len(pending) < MaxPending
          /\ AnalyzeRequest(req)
    \/ \E i \in 1..Len(pending) :
          \E analysis \in GeminiAnswers(pending[i].resumeText) :
             GeminiReplies(i, analysis, FALSE, FALSE, {}, {})
    \/ \E req \in AggQueries : Analytics(req)
    \/ \E chartThrows \in BOOLEAN : UpdateDashboard(chartThrows)

SpecDashboard == Init /\ [][NextDashboard]_vars

\* C30: every updateDashboard call draws the chart of each slot for which its
\* data is not empty and runs to its end, whatever the calls before it
\* received, and no slot ever has more than one chart that was created and
\* not destroyed.
C30_NonEmptyChartIsRendered ==
    [][\A chartThrows \in BOOLEAN :
         UpdateDashboard(chartThrows) =>
            /\ \A slot \in Slots :
                  ~IsEmptyFor(response.body, slot) => slot \in dashboard'.rendered
            /\ dashboard'.completed
            /\ \A slot \in Slots : live'[slot] <= 1
      ]_vars

====
